---- MODULE Spec2Model ----
(***************************************************************************)
(* Serverless Snacks: the order-intake pipeline.                           *)
(*                                                                         *)
(*   lambdas/order_creator.py    handler: conditional insert + publish     *)
(*   lambdas/order_processor.py  handler: conditional update               *)
(*   serverless_snacks_stack.py  table, event bus, rule, DLQ, alarm        *)
(*                                                                         *)
(* The DynamoDB table is a function from partition key to item; the event  *)
(* bus is the sequence of deliveries the rule hands to the processor       *)
(* lambda.  A creator invocation touches the outside world twice           *)
(* (put_item, put_events) and so takes two steps; a processor invocation   *)
(* touches it once (update_item) and takes one.                            *)
(***************************************************************************)
EXTENDS Integers, Sequences, FiniteSets, TLC

(***************************************************************************)
(* Bounds of the model.                                                    *)
(***************************************************************************)
NumCreators == 2       \* creator invocations in a run
MaxDuplicates == 1     \* extra deliveries of published events (at-least-once)
MaxExternal == 1       \* events put on the bus by someone other than the creator
MaxBacklog == 4        \* messages in the dead letter queue when monitoring starts

(***************************************************************************)
(* The asynchronous invocation of the processor lambda is tried again      *)
(* twice after a function error (the stack leaves retry_attempts at its    *)
(* default) and then handed to the dead letter queue.                      *)
(***************************************************************************)
MaxAttempts == 3

\* threshold of the alarm on the dead letter queue
Threshold == 5

OrderIds == {"o1", "o2"}
Items == {"chips"}
Absent == "<absent>"       \* dict.get(key) of a key that is not there
NoItem == [orderId |-> Absent, status |-> Absent, item |-> Absent]
OrdersTable == "OrdersTable"

Creators == 1..NumCreators

\* The deliveries of the bus to the processor lambda: of the event creator
\* invocation c published (c), of its repeats, and of events from elsewhere.
Duplicates == (NumCreators + 1)..(NumCreators + MaxDuplicates)
Externals == (NumCreators + MaxDuplicates + 1)..(NumCreators + MaxDuplicates + MaxExternal)
Deliveries == Creators \cup Duplicates \cup Externals

VARIABLES
    environ,    \* TABLE_NAME of each lambda's environment ("" when missing)
    store,      \* the orders table: orderId -> item, or NoItem
    updates,    \* per orderId, the update_item calls that wrote the item
    creators,   \* the creator invocations
    bus,        \* the deliveries of the event bus to the processor lambda
    dlq,        \* ApproximateNumberOfMessagesVisible of the dead letter queue
    alarm       \* DLQAlarm: its state and the datapoint it was evaluated on

vars == <<environ, store, updates, creators, bus, dlq, alarm>>

(***************************************************************************)
(* Request bodies of the creation handler.                                 *)
(*   malformed  a string that is not JSON          ("{invalid_json")       *)
(*   null       event["body"] is None, not a string                        *)
(*   array      a string holding JSON that is not an object                *)
(*   object     a string holding a JSON object, with or without the keys   *)
(***************************************************************************)
Body(kind, orderId, item) == [kind |-> kind, orderId |-> orderId, item |-> item]

RequestBodies ==
    {Body("malformed", Absent, Absent), Body("null", Absent, Absent),
     Body("array", Absent, Absent)}
    \cup {Body("object", o, Absent) : o \in {Absent, ""}}
    \cup {Body("object", o, i) : o \in OrderIds, i \in Items}
    \cup {Body("object", "o1", Absent)}

\* loads(body) if isinstance(body, str) else body
Loads(body) ==
    CASE body.kind = "malformed" -> [error |-> "JSONDecodeError", type |-> "none",
                                     orderId |-> Absent, item |-> Absent]
      [] body.kind = "null"      -> [error |-> "", type |-> "none",
                                     orderId |-> Absent, item |-> Absent]
      [] body.kind = "array"     -> [error |-> "", type |-> "list",
                                     orderId |-> Absent, item |-> Absent]
      [] OTHER                   -> [error |-> "", type |-> "dict",
                                     orderId |-> body.orderId, item |-> body.item]

\* Python truthiness of order.get("orderId") / environ.get("TABLE_NAME")
Truthy(s) == s # Absent /\ s # ""

\* order.get("item", "unknown")
ItemOfNoDefault(order) == order.item

ItemOf(order) == IF order.item = Absent THEN "unknown" ELSE order.item

\* How an invocation ended: the response it returned, or the exception it
\* let out (for a ClientError, its error code).
Response(code) == [raised |-> FALSE, statusCode |-> code, error |-> ""]
Raised(error) == [raised |-> TRUE, statusCode |-> 0, error |-> error]
NoResult == [raised |-> FALSE, statusCode |-> 0, error |-> ""]

(***************************************************************************)
(* The creation handler before it touches the store: the status it         *)
(* returns, 0 when the request goes on to put_item, -1 when order.get      *)
(* raises AttributeError (the body is JSON, or None, but no object).       *)
(***************************************************************************)
ValidateMalformedAs500(table_name, order) ==
    IF ~Truthy(table_name) \/ order.error = "JSONDecodeError" THEN 500
    ELSE IF order.type # "dict" THEN -1
    ELSE IF ~Truthy(order.orderId) THEN 400
    ELSE 0

ValidateParseFirst(table_name, order) ==
    IF order.error = "JSONDecodeError" THEN 400
    ELSE IF order.type # "dict" THEN -1
    ELSE IF ~Truthy(order.orderId) THEN 400
    ELSE IF ~Truthy(table_name) THEN 500
    ELSE 0

Validate(table_name, order) ==
    IF ~Truthy(table_name) THEN 500
    ELSE IF order.error = "JSONDecodeError" THEN 400
    ELSE IF order.type # "dict" THEN -1
    ELSE IF ~Truthy(order.orderId) THEN 400
    ELSE 0

(***************************************************************************)
(* The store's conditional writes.  fault: the table answers with a        *)
(* ClientError other than ConditionalCheckFailedException.                 *)
(***************************************************************************)
PutItemOverwrite(table, item, fault) ==
    IF fault THEN [code |-> "InternalServerError", table |-> table]
    ELSE [code |-> "OK", table |-> [table EXCEPT ![item.orderId] = item]]

\* table.put_item(Item=..., ConditionExpression=Attr("orderId").not_exists())
PutItem(table, item, fault) ==
    IF fault THEN [code |-> "InternalServerError", table |-> table]
    ELSE IF table[item.orderId] # NoItem
         THEN [code |-> "ConditionalCheckFailedException", table |-> table]
         ELSE [code |-> "OK", table |-> [table EXCEPT ![item.orderId] = item]]

\* What the creation handler does with put_item's outcome: the status it
\* returns, or 0 when it goes on to publish.
AfterPutItemPublishAlways(code) ==
    IF code = "InternalServerError" THEN 500 ELSE 0

AfterPutItemIgnoreFault(code) ==
    CASE code = "ConditionalCheckFailedException" -> 409
      [] OTHER -> 0

AfterPutItem(code) ==
    CASE code = "ConditionalCheckFailedException" -> 409
      [] code = "OK" -> 0
      [] OTHER -> 500

Detail(orderId, item) == [present |-> TRUE, orderId |-> orderId, item |-> item]
NoDetail == [present |-> FALSE, orderId |-> Absent, item |-> Absent]

Delivery(detail, origin) ==
    [detail |-> detail, origin |-> origin, attempts |-> 0, state |-> "queued",
     result |-> NoResult]

NoDelivery ==
    [detail |-> NoDetail, origin |-> "none", attempts |-> 0, state |-> "none",
     result |-> NoResult]

\* The body of the 200 response; the other responses carry an error text.
SuccessBody(order_id) == [orderId |-> order_id, status |-> "NEW"]
NoSuccessBody == [orderId |-> Absent, status |-> Absent]

IdleCreator ==
    [pc |-> "idle", body |-> Body("null", Absent, Absent), order_id |-> Absent,
     item |-> Absent, result |-> NoResult, inserted |-> FALSE, published |-> FALSE,
     response_body |-> NoSuccessBody]

NoAlarm == [state |-> "INSUFFICIENT_DATA", sampled |-> 0]

Init ==
    /\ environ = [creator |-> OrdersTable, processor |-> OrdersTable]
    /\ store = [o \in OrderIds |-> NoItem]
    /\ updates = [o \in OrderIds |-> 0]
    /\ creators = [c \in Creators |-> IdleCreator]
    /\ bus = [d \in Deliveries |-> NoDelivery]
    /\ dlq = 0
    /\ alarm = NoAlarm

(***************************************************************************)
(* order_creator.handler up to and including put_item.                     *)
(***************************************************************************)
CreatorInvoke(c) ==
    /\ creators[c].pc = "idle"
    /\ \A b \in Creators : b < c => creators[b].pc # "idle"   \* numbered as they start
    /\ \E body \in RequestBodies, fault \in BOOLEAN :
        LET order == Loads(body)
            valid == Validate(environ.creator, order)
            order_id == order.orderId
            item == ItemOf(order)
            put == PutItem(store, [orderId |-> order_id, status |-> "NEW",
                                   item |-> item], fault)
            code == AfterPutItem(put.code)
        IN  IF valid # 0
            THEN /\ creators' = [creators EXCEPT ![c] =
                        [@ EXCEPT !.pc = IF valid = -1 THEN "raised" ELSE "returned",
                                  !.body = body,
                                  !.result = IF valid = -1 THEN Raised("AttributeError")
                                             ELSE Response(valid)]]
                 /\ UNCHANGED store
            ELSE /\ store' = put.table
                 /\ creators' = [creators EXCEPT ![c] =
                        [@ EXCEPT !.pc = IF code = 0 THEN "put_events" ELSE "returned",
                                  !.body = body, !.order_id = order_id, !.item = item,
                                  !.result = IF code = 0 THEN NoResult ELSE Response(code),
                                  !.inserted = (put.code = "OK")]]
    /\ UNCHANGED bus
    /\ UNCHANGED <<environ, updates, dlq, alarm>>

(***************************************************************************)
(* events_client.put_events(Entries=[...]).  fault: the call raises a      *)
(* ClientError.  An accepted entry matches the rule and becomes a          *)
(* delivery to the processor lambda.                                       *)
(***************************************************************************)
PutEvents(channel, id, detail, fault) ==
    IF fault THEN [code |-> "ClientError", channel |-> channel]
    ELSE [code |-> "OK",
          channel |-> [channel EXCEPT ![id] = Delivery(detail, "creator")]]

\* The status the creation handler returns after put_events.
AfterPutEventsIgnoreFailure(code) == 200

AfterPutEvents(code) == IF code = "OK" THEN 200 ELSE 502

(***************************************************************************)
(* order_creator.handler from put_events to its return.                    *)
(***************************************************************************)
CreatorPublish(c) ==
    /\ creators[c].pc = "put_events"
    /\ \E fault \in BOOLEAN :
        LET put == PutEvents(bus, c, Detail(creators[c].order_id, creators[c].item), fault)
        IN  /\ bus' = put.channel
            /\ creators' = [creators EXCEPT ![c] =
                   [@ EXCEPT !.pc = "returned",
                             !.result = Response(AfterPutEvents(put.code)),
                             !.published = (put.code = "OK"),
                             !.response_body = IF put.code = "OK"
                                               THEN SuccessBody(creators[c].order_id)
                                               ELSE NoSuccessBody]]
    /\ UNCHANGED <<environ, store, updates, dlq, alarm>>

(***************************************************************************)
(* table.update_item(Key=..., SET #status = :status,                       *)
(*                   ConditionExpression=Attr("orderId").exists())         *)
(***************************************************************************)
UpdateItemUpsert(table, key, fault) ==
    IF fault THEN [code |-> "InternalServerError", table |-> table]
    ELSE [code |-> "OK",
          table |-> [table EXCEPT ![key] =
                        IF @ = NoItem
                        THEN [orderId |-> key, status |-> "PROCESSED", item |-> Absent]
                        ELSE [@ EXCEPT !.status = "PROCESSED"]]]

UpdateItemReplace(table, key, fault) ==
    IF fault THEN [code |-> "InternalServerError", table |-> table]
    ELSE IF table[key] = NoItem
         THEN [code |-> "ConditionalCheckFailedException", table |-> table]
         ELSE [code |-> "OK",
               table |-> [table EXCEPT ![key] =
                            [orderId |-> key, status |-> "PROCESSED", item |-> Absent]]]

UpdateItemIfNew(table, key, fault) ==
    IF fault THEN [code |-> "InternalServerError", table |-> table]
    ELSE IF table[key] = NoItem \/ table[key].status # "NEW"
         THEN [code |-> "ConditionalCheckFailedException", table |-> table]
         ELSE [code |-> "OK", table |-> [table EXCEPT ![key].status = "PROCESSED"]]

UpdateItem(table, key, fault) ==
    IF fault THEN [code |-> "InternalServerError", table |-> table]
    ELSE IF table[key] = NoItem
         THEN [code |-> "ConditionalCheckFailedException", table |-> table]
         ELSE [code |-> "OK", table |-> [table EXCEPT ![key].status = "PROCESSED"]]

\* How the processing handler ends after update_item: the ClientError is
\* logged and raised again, success is answered with 200.
AfterUpdateItemSwallow(code) ==
    IF code = "OK" THEN Response(200) ELSE Response(500)

AfterUpdateItem(code) ==
    IF code = "OK" THEN Response(200) ELSE Raised(code)

ProcessorHandlerRaiseAlways(table_name, table, event, fault) ==
    LET order_id == IF event.present THEN event.orderId ELSE Absent
        upd == UpdateItem(table, order_id, fault)
    IN  IF ~Truthy(table_name)
        THEN [result |-> Raised("KeyError"), table |-> table, wrote |-> FALSE]
        ELSE IF ~Truthy(order_id)
        THEN [result |-> Raised("ValueError"), table |-> table, wrote |-> FALSE]
        ELSE [result |-> AfterUpdateItem(upd.code), table |-> upd.table,
              wrote |-> (upd.code = "OK")]

(***************************************************************************)
(* order_processor.handler, whole: what it returns or raises, the table    *)
(* it leaves, and whether update_item wrote.                               *)
(***************************************************************************)
ProcessorHandler(table_name, table, event, fault) ==
    LET order_id == IF event.present THEN event.orderId ELSE Absent
        upd == UpdateItem(table, order_id, fault)
    IN  IF ~Truthy(table_name)
        THEN [result |-> Response(500), table |-> table, wrote |-> FALSE]
        ELSE IF ~Truthy(order_id)
        THEN [result |-> Response(400), table |-> table, wrote |-> FALSE]
        ELSE [result |-> AfterUpdateItem(upd.code), table |-> upd.table,
              wrote |-> (upd.code = "OK")]

(***************************************************************************)
(* The lambda's asynchronous invocation: a function error is retried until *)
(* MaxAttempts invocations were made, then the event goes to the dead      *)
(* letter queue; an invocation that returns ends the delivery.             *)
(***************************************************************************)
AfterInvocation(d, result) ==
    [d EXCEPT !.attempts = @ + 1,
              !.result = result,
              !.state = IF ~result.raised THEN "done"
                        ELSE IF d.attempts + 1 < MaxAttempts THEN "queued"
                        ELSE "dlq"]

ProcessorInvoke(d) ==
    /\ bus[d].state = "queued"
    /\ \E fault \in BOOLEAN :
        LET h == ProcessorHandler(environ.processor, store, bus[d].detail, fault)
        IN  /\ store' = h.table
            /\ updates' = IF h.wrote
                          THEN [updates EXCEPT ![bus[d].detail.orderId] = @ + 1]
                          ELSE updates
            /\ bus' = [bus EXCEPT ![d] = AfterInvocation(@, h.result)]
            /\ dlq' = IF AfterInvocation(bus[d], h.result).state = "dlq"
                      THEN dlq + 1 ELSE dlq
    /\ UNCHANGED <<environ, creators, alarm>>

(***************************************************************************)
(* At-least-once delivery: the bus may hand an event it accepted to the    *)
(* target once more.                                                       *)
(***************************************************************************)
FirstFree(ids) ==
    CHOOSE d \in ids : bus[d].state = "none" /\ \A e \in ids : e < d => bus[e].state # "none"

Duplicate(d) ==
    /\ bus[d].origin = "creator"
    /\ \E e \in Duplicates : bus[e].state = "none"
    /\ bus' = [bus EXCEPT ![FirstFree(Duplicates)] = Delivery(bus[d].detail, "duplicate")]
    /\ UNCHANGED <<environ, store, updates, creators, dlq, alarm>>

(***************************************************************************)
(* An event that did not come from the creation handler: the processing    *)
(* handler run on a hand-made event, as the tests do.                      *)
(***************************************************************************)
EventDetails ==
    {NoDetail} \cup {Detail(o, Absent) : o \in OrderIds \cup {"", Absent}}

ExternalEvent ==
    /\ \E e \in Externals : bus[e].state = "none"
    /\ \E detail \in EventDetails :
        bus' = [bus EXCEPT ![FirstFree(Externals)] = Delivery(detail, "external")]
    /\ UNCHANGED <<environ, store, updates, creators, dlq, alarm>>

Next ==
    \/ \E c \in Creators : CreatorInvoke(c)
    \/ \E c \in Creators : CreatorPublish(c)
    \/ \E d \in Deliveries : ProcessorInvoke(d)
    \/ \E d \in Deliveries : Duplicate(d)

\* The pipeline as deployed: only the creation handler may put events.
Spec == Init /\ [][Next]_vars

\* The pipeline with the deliveries the bus owes: an event accepted by
\* put_events is handed to the processor lambda, and an invocation that
\* failed is made again, until the delivery ends or is dead-lettered.
NextPipeline ==
    \/ \E c \in Creators : CreatorInvoke(c)
    \/ \E c \in Creators : CreatorPublish(c)
    \/ \E d \in Deliveries : ProcessorInvoke(d)

SpecFair ==
    Init /\ [][NextPipeline]_vars /\ \A d \in Deliveries : WF_vars(ProcessorInvoke(d))

\* The processing handler on its own, run on hand-made events against a
\* table holding any orders, as the tests run it.
InitDirect ==
    /\ environ = [creator |-> OrdersTable, processor |-> OrdersTable]
    /\ store \in [OrderIds -> {NoItem}
                     \cup {[orderId |-> o, status |-> st, item |-> i] :
                            o \in OrderIds, st \in {"NEW", "PROCESSED"},
                            i \in Items \cup {"unknown"}}]
    /\ \A o \in OrderIds : store[o] = NoItem \/ store[o].orderId = o
    /\ updates = [o \in OrderIds |-> 0]
    /\ creators = [c \in Creators |-> IdleCreator]
    /\ bus = [d \in Deliveries |-> NoDelivery]
    /\ dlq = 0
    /\ alarm = NoAlarm

NextDirect ==
    \/ ExternalEvent
    \/ \E d \in Deliveries : ProcessorInvoke(d)

SpecDirect == InitDirect /\ [][NextDirect]_vars

(***************************************************************************)
(* A deployment whose lambdas have no TABLE_NAME in their environment,     *)
(* over a table holding any orders: requests reach the creation handler    *)
(* and hand-made events the processing handler.                            *)
(***************************************************************************)
Tables ==
    {t \in [OrderIds -> {NoItem}
                \cup {[orderId |-> o, status |-> st, item |-> i] :
                       o \in OrderIds, st \in {"NEW", "PROCESSED"},
                       i \in Items \cup {"unknown"}}] :
        \A o \in OrderIds : t[o] = NoItem \/ t[o].orderId = o}

InitMisconfigured ==
    /\ environ = [creator |-> Absent, processor |-> Absent]
    /\ store \in Tables
    /\ updates = [o \in OrderIds |-> 0]
    /\ creators = [c \in Creators |-> IdleCreator]
    /\ bus = [d \in Deliveries |-> NoDelivery]
    /\ dlq = 0
    /\ alarm = NoAlarm

NextMisconfigured ==
    \/ \E c \in Creators : CreatorInvoke(c)
    \/ ExternalEvent
    \/ \E d \in Deliveries : ProcessorInvoke(d)

SpecMisconfigured == InitMisconfigured /\ [][NextMisconfigured]_vars

(***************************************************************************)
(* DLQAlarm: GREATER_THAN_OR_EQUAL_TO_THRESHOLD on the number of visible   *)
(* messages of the dead letter queue, over one evaluation period.          *)
(***************************************************************************)
BreachesGreaterThan(count) == count > Threshold

Breaches(count) == count >= Threshold

\* One evaluation period: the alarm takes the state its datapoint gives it.
EvaluateAlarm ==
    /\ alarm' = [state |-> IF Breaches(dlq) THEN "ALARM" ELSE "OK", sampled |-> dlq]
    /\ UNCHANGED <<environ, store, updates, creators, bus, dlq>>

\* The dead letter queue under its alarm: it holds some messages already,
\* and events that keep failing in the processing handler add to them.
InitMonitor ==
    /\ environ = [creator |-> OrdersTable, processor |-> OrdersTable]
    /\ store \in Tables
    /\ updates = [o \in OrderIds |-> 0]
    /\ creators = [c \in Creators |-> IdleCreator]
    /\ bus = [d \in Deliveries |-> NoDelivery]
    /\ dlq \in 0..MaxBacklog
    /\ alarm = NoAlarm

NextMonitor ==
    \/ ExternalEvent
    \/ \E d \in Deliveries : ProcessorInvoke(d)
    \/ EvaluateAlarm

SpecMonitor == InitMonitor /\ [][NextMonitor]_vars

(***************************************************************************)
(*                              Properties                                 *)
(***************************************************************************)
Finished(c) == creators[c].pc \in {"returned", "raised"}

\* The creator invocations that called put_item for orderId o.
PutFor(o) == {c \in Creators : creators[c].order_id = o}

Inserters(o) == {c \in PutFor(o) : creators[c].inserted}

\* The invocation of the processor on delivery d that a step makes.
Invoked(d) == bus[d].state = "queued" /\ bus'[d].attempts = bus[d].attempts + 1

\* The creator invocation c that a step starts.
Started(c) == creators[c].pc = "idle" /\ creators'[c].pc # "idle"

(***************************************************************************)
(* C1 as stated: once the concurrent creation invocations for one orderId  *)
(* have all ended, exactly one of them performed the insert, every other   *)
(* one got 409, and the store holds the record.                            *)
(***************************************************************************)
C1_AsStated ==
    \A o \in OrderIds :
        (Cardinality(PutFor(o)) >= 2 /\ \A c \in PutFor(o) : Finished(c)) =>
            /\ Cardinality(Inserters(o)) = 1
            /\ \A c \in PutFor(o) \ Inserters(o) : creators[c].result = Response(409)
            /\ store[o] # NoItem

(***************************************************************************)
(* C1, amended: of the creation invocations for one orderId, however       *)
(* interleaved, at most one performs the insert, and the store holds the   *)
(* record exactly when one did.  The inserter goes on to publish (200 or   *)
(* 502); every other one ends with 409, or with 500 when the store faulted *)
(* on its put_item.  As soon as the store has answered one of them without *)
(* a fault, exactly one has inserted.                                      *)
(***************************************************************************)
C1_ExactlyOneInsert ==
    \A o \in OrderIds :
        /\ Cardinality(Inserters(o)) <= 1
        /\ (store[o] # NoItem) <=> (Inserters(o) # {})
        /\ \A c \in Inserters(o) :
              \/ creators[c].pc = "put_events"
              \/ creators[c].result \in {Response(200), Response(502)}
        /\ \A c \in PutFor(o) \ Inserters(o) :
              creators[c].result \in {Response(409), Response(500)}
        /\ (\E c \in PutFor(o) : creators[c].result # Response(500)) =>
              Cardinality(Inserters(o)) = 1

\* Two invocations for one orderId overlap: the second got its 409 while the
\* first, which inserted, had not yet published.
C1_Witness ==
    \E a, b \in Creators :
        /\ a # b
        /\ creators[a].order_id = creators[b].order_id
        /\ creators[a].inserted /\ creators[a].pc = "put_events"
        /\ creators[b].result = Response(409)

(***************************************************************************)
(* C2 as stated: a creation request for an orderId that has a record       *)
(* returns 409 and leaves the store as it was.                             *)
(***************************************************************************)
C2_AsStated ==
    [][\A c \in Creators :
          (/\ Started(c)
           /\ creators'[c].order_id \in OrderIds
           /\ store[creators'[c].order_id] # NoItem)
          => (creators'[c].result = Response(409) /\ store' = store)]_vars

(***************************************************************************)
(* C2, amended: a creation request for an orderId that has a record, NEW   *)
(* or PROCESSED, with any item, returns 409, or 500 when the store faults  *)
(* on the put_item; either way it inserts nothing, the stored record stays *)
(* exactly as it was and no event is published.                            *)
(***************************************************************************)
C2_DuplicateRejected ==
    [][\A c \in Creators :
          (/\ Started(c)
           /\ creators'[c].order_id \in OrderIds
           /\ store[creators'[c].order_id] # NoItem)
          => /\ creators'[c].result \in {Response(409), Response(500)}
             /\ creators'[c].pc = "returned"
             /\ ~creators'[c].inserted
             /\ store' = store
             /\ bus' = bus]_vars

\* A request got 409 for an order that is PROCESSED and whose stored item is
\* not the item of the request.
C2_Witness ==
    \E c \in Creators :
        /\ creators[c].result = Response(409)
        /\ store[creators[c].order_id].status = "PROCESSED"
        /\ store[creators[c].order_id].item # creators[c].item

(***************************************************************************)
(* C3: an OrderCreated event is published only by a creation invocation    *)
(* whose conditional insert succeeded; one that ended in 400, 409 or 500   *)
(* published nothing; and at most one event is ever published per orderId. *)
(***************************************************************************)
PublishedFor(o) ==
    {c \in Creators : bus[c].origin = "creator" /\ bus[c].detail.orderId = o}

C3_PublishOnlyAfterInsert ==
    /\ \A c \in Creators :
          /\ (creators[c].published <=> bus[c] # NoDelivery)
          /\ creators[c].published => creators[c].inserted
          /\ creators[c].result.statusCode \in {400, 409, 500} =>
                ~creators[c].published
    /\ \A o \in OrderIds : Cardinality(PublishedFor(o)) <= 1

\* One invocation published the event of an order and another one, for the
\* same order, ended in 409.
C3_Witness ==
    \E a, b \in Creators :
        /\ creators[a].published
        /\ creators[b].order_id = creators[a].order_id
        /\ creators[b].result = Response(409)

(***************************************************************************)
(* C4: the stored status is monotonic.  A record appears with status NEW,  *)
(* the only change a record ever sees is NEW to PROCESSED, and a record    *)
(* never goes away or back to NEW.                                         *)
(***************************************************************************)
C4_StatusMonotonic ==
    [][\A o \in OrderIds :
          store'[o] # store[o] =>
             \/ store[o] = NoItem /\ store'[o].status = "NEW"
             \/ /\ store[o] # NoItem
                /\ store[o].status = "NEW"
                /\ store'[o] = [store[o] EXCEPT !.status = "PROCESSED"]]_vars

\* A creation request was rejected for an order that is PROCESSED.
C4_Witness ==
    \E c \in Creators :
        /\ creators[c].result = Response(409)
        /\ store[creators[c].order_id].status = "PROCESSED"
        /\ updates[creators[c].order_id] > 0

\* The orderId the processing handler reads from delivery d's event.
OrderIdOf(d) == IF bus[d].detail.present THEN bus[d].detail.orderId ELSE Absent

\* The deliveries the processing handler passes on to update_item.
ForOrder(d) == bus[d].state # "none" /\ Truthy(OrderIdOf(d))

(***************************************************************************)
(* C5: a processing invocation for an orderId that has no record ends in   *)
(* a raised fault, never in a response, and leaves the store unchanged: it *)
(* creates no record.                                                      *)
(***************************************************************************)
C5_UnknownOrderRaises ==
    [][\A d \in Deliveries :
          (Invoked(d) /\ ForOrder(d) /\ store[OrderIdOf(d)] = NoItem)
          => /\ bus'[d].result.raised
             /\ bus'[d].result.statusCode = 0
             /\ bus'[d].state \in {"queued", "dlq"}
             /\ store' = store
             /\ updates' = updates]_vars

\* The processor was run on an event for an order that has no record and the
\* store answered that its condition failed.
C5_Witness ==
    \E d \in Deliveries :
        /\ ForOrder(d)
        /\ store[OrderIdOf(d)] = NoItem
        /\ bus[d].result = Raised("ConditionalCheckFailedException")

(***************************************************************************)
(* C6 as stated: when an OrderCreated event is delivered twice, every      *)
(* invocation of the processing handler on it returns 200.                 *)
(***************************************************************************)
C6_AsStated ==
    \A d, e \in Deliveries :
        (/\ d # e /\ ForOrder(d) /\ bus[e].detail = bus[d].detail
         /\ bus[d].attempts > 0 /\ bus[e].attempts > 0)
        => bus[d].result = Response(200)

(***************************************************************************)
(* C6, amended: when a published OrderCreated event is delivered more than *)
(* once, every invocation on which the store does not fault returns 200    *)
(* (none is rejected because the order is already PROCESSED); one on which *)
(* the store faults raises that fault and is retried.  The record that the *)
(* invocations leave is the one a single delivery leaves: the record as    *)
(* created, with status PROCESSED.                                         *)
(***************************************************************************)
C6_IdempotentProcessing ==
    \A d \in Deliveries :
        (ForOrder(d) /\ bus[d].attempts > 0) =>
            /\ bus[d].result \in {Response(200), Raised("InternalServerError")}
            /\ bus[d].result = Response(200) =>
                  store[OrderIdOf(d)] =
                      [orderId |-> OrderIdOf(d), status |-> "PROCESSED",
                       item |-> bus[d].detail.item]

\* An event and its duplicate were both processed with 200.
C6_Witness ==
    \E a \in Creators, b \in Duplicates :
        /\ bus[a].detail = bus[b].detail
        /\ bus[a].result = Response(200)
        /\ bus[b].result = Response(200)
        /\ store[OrderIdOf(a)].status = "PROCESSED"

(***************************************************************************)
(* C7 as stated: the processing handler writes the record of an orderId at *)
(* most once; a duplicate event for a PROCESSED order writes nothing.      *)
(***************************************************************************)
C7_AsStated == \A o \in OrderIds : updates[o] <= 1

(***************************************************************************)
(* C7, amended: every successful processing invocation writes the record   *)
(* (update_item has no guard on the status), so a duplicate or redelivered *)
(* event for a PROCESSED order does cause another write; but only the      *)
(* first write changes the record, from NEW to PROCESSED and nothing else, *)
(* and every later one leaves it exactly as it was.                        *)
(***************************************************************************)
C7_OneChangePerOrder ==
    [][\A d \in Deliveries :
          (Invoked(d) /\ ForOrder(d) /\ bus'[d].result = Response(200))
          => LET o == OrderIdOf(d)
             IN  /\ updates'[o] = updates[o] + 1
                 /\ store[o] # NoItem
                 /\ store[o].status = "NEW" =>
                       store' = [store EXCEPT ![o].status = "PROCESSED"]
                 /\ store[o].status = "PROCESSED" => store' = store]_vars

\* An order was written twice by the processing handler.
C7_Witness ==
    \E o \in OrderIds : updates[o] = 2 /\ store[o].status = "PROCESSED"

(***************************************************************************)
(* C8: a delivery whose invocation raised is queued again, the invocations *)
(* of a delivery never exceed MaxAttempts, and after the last one raised   *)
(* the event is in the dead letter queue.  No event whose processing       *)
(* failed is dropped: a delivery ends only when the order is PROCESSED or  *)
(* in the dead letter queue.  A delivery that ended is not invoked again.  *)
(***************************************************************************)
C8_RetryThenDeadLetter ==
    /\ [](\A d \in Deliveries : ForOrder(d) =>
            /\ bus[d].attempts <= MaxAttempts
            /\ bus[d].state = "queued" =>
                  /\ bus[d].attempts < MaxAttempts
                  /\ bus[d].attempts > 0 => bus[d].result.raised
            /\ bus[d].state = "dlq" =>
                  bus[d].attempts = MaxAttempts /\ bus[d].result.raised
            /\ bus[d].state = "done" =>
                  /\ bus[d].result = Response(200)
                  /\ store[OrderIdOf(d)] # NoItem
                  /\ store[OrderIdOf(d)].status = "PROCESSED")
    /\ [][\A d \in Deliveries :
            bus[d].state \in {"done", "dlq"} => bus'[d] = bus[d]]_vars

\* An event is in the dead letter queue after MaxAttempts invocations raised,
\* and another delivery was processed at its second attempt.
C8_Witness ==
    \E a, b \in Deliveries :
        /\ bus[a].state = "dlq" /\ bus[a].attempts = MaxAttempts
        /\ bus[b].state = "done" /\ bus[b].attempts = 2

BadRequest(body) ==
    \/ body.kind = "malformed"
    \/ body.kind = "object" /\ body.orderId \in {Absent, ""}

C10_BadRequestIs400 ==
    [][\A c \in Creators :
          (Started(c) /\ BadRequest(creators'[c].body))
          => /\ creators'[c].result = Response(400)
             /\ creators'[c].pc = "returned"
             /\ ~creators'[c].inserted /\ ~creators'[c].published
             /\ store' = store
             /\ bus' = bus
             /\ updates' = updates]_vars

\* One request with malformed JSON and one with an empty orderId got 400.
C10_Witness ==
    \E a, b \in Creators :
        /\ creators[a].body.kind = "malformed"
        /\ creators[a].result = Response(400)
        /\ creators[b].body = Body("object", "", Absent)
        /\ creators[b].result = Response(400)

(***************************************************************************)
(* C11 as stated: every invocation of the creation handler ends with a     *)
(* response whose status is 200, 400, 409, 500 or 502, whatever the        *)
(* payload (a null body and JSON that is no object included) and whatever  *)
(* the store and the bus answer; none ends by letting an exception out.    *)
(***************************************************************************)
C11_AsStated ==
    \A c \in Creators :
        /\ creators[c].pc # "raised"
        /\ Finished(c) =>
              /\ ~creators[c].result.raised
              /\ creators[c].result.statusCode \in {200, 400, 409, 500, 502}

(***************************************************************************)
(* C12: with no TABLE_NAME the creation handler answers 500 to every       *)
(* payload, malformed JSON and a missing orderId included, since the       *)
(* configuration is checked before the body is parsed; it writes nothing   *)
(* to the store and publishes nothing.                                     *)
(***************************************************************************)
C12_MisconfiguredCreatorIs500 ==
    [][\A c \in Creators :
          (Started(c) /\ ~Truthy(environ.creator))
          => /\ creators'[c].result = Response(500)
             /\ creators'[c].pc = "returned"
             /\ ~creators'[c].inserted /\ ~creators'[c].published
             /\ store' = store
             /\ bus' = bus]_vars

\* Without TABLE_NAME a request with malformed JSON and one for a new order
\* both got 500, and the order is not in the store.
C12_Witness ==
    \E a, b \in Creators :
        /\ ~Truthy(environ.creator)
        /\ creators[a].body.kind = "malformed"
        /\ creators[a].result = Response(500)
        /\ creators[b].body = Body("object", "o1", "chips")
        /\ creators[b].result = Response(500)
        /\ store["o1"] = NoItem

\* Delivery d holds an event the processing handler rejects: no detail, or
\* no orderId in it, or an empty one.
Malformed(d) == bus[d].state # "none" /\ ~Truthy(OrderIdOf(d))

(***************************************************************************)
(* C13: a processing event without detail, or without orderId, or with an  *)
(* empty orderId, is answered with 400 and nothing is raised, so the       *)
(* event is not delivered again and does not reach the dead letter queue;  *)
(* the store is unchanged.                                                 *)
(***************************************************************************)
C13_MalformedEventIs400 ==
    /\ [][\A d \in Deliveries :
            (Invoked(d) /\ Malformed(d))
            => /\ bus'[d].result = Response(400)
               /\ bus'[d].state = "done"
               /\ bus'[d].attempts = 1
               /\ store' = store
               /\ updates' = updates]_vars
    /\ [][\A d \in Deliveries :
            (Malformed(d) /\ bus[d].state = "done") => bus'[d] = bus[d]]_vars
    /\ [](\A d \in Deliveries : Malformed(d) => bus[d].state # "dlq")

\* An event without detail was answered with 400 at its only invocation.
C13_Witness ==
    \E d \in Deliveries :
        /\ bus[d].detail = NoDetail
        /\ bus[d].state = "done"
        /\ bus[d].attempts = 1
        /\ bus[d].result = Response(400)

(***************************************************************************)
(* C14: with no TABLE_NAME the processing handler answers every event with *)
(* 500 and raises nothing: the store is not touched, the event is not      *)
(* delivered again and never reaches the dead letter queue.                *)
(***************************************************************************)
C14_MisconfiguredProcessorIs500 ==
    /\ [][\A d \in Deliveries :
            (Invoked(d) /\ ~Truthy(environ.processor))
            => /\ bus'[d].result = Response(500)
               /\ bus'[d].state = "done"
               /\ bus'[d].attempts = 1
               /\ store' = store
               /\ updates' = updates]_vars
    /\ [][\A d \in Deliveries : bus[d].state = "done" => bus'[d] = bus[d]]_vars
    /\ [](~Truthy(environ.processor) =>
             \A d \in Deliveries : bus[d].state # "dlq")

\* Without TABLE_NAME an event for an order that is NEW in the store was
\* answered with 500 at its only invocation, and the order is still NEW.
C14_Witness ==
    \E d \in Deliveries :
        /\ ~Truthy(environ.processor)
        /\ ForOrder(d)
        /\ store[OrderIdOf(d)] # NoItem
        /\ store[OrderIdOf(d)].status = "NEW"
        /\ bus[d].state = "done"
        /\ bus[d].attempts = 1
        /\ bus[d].result = Response(500)

(***************************************************************************)
(* C15: the alarm on the dead letter queue is in ALARM after an evaluation *)
(* period exactly when the number of messages sampled in it is 5 or more:  *)
(* 5 raises it, 4 or less does not.                                        *)
(***************************************************************************)
C15_AlarmAtFiveOrMore ==
    /\ alarm.state \in {"INSUFFICIENT_DATA", "OK", "ALARM"}
    /\ alarm.state = "ALARM" => alarm.sampled >= 5
    /\ alarm.state = "OK" => alarm.sampled <= 4

\* The fifth message came from an event that failed MaxAttempts times, and
\* the alarm evaluated on the five messages is in ALARM.
C15_Witness ==
    /\ alarm.sampled = 5
    /\ alarm.state = "ALARM"
    /\ \E d \in Deliveries : bus[d].state = "dlq"

(***************************************************************************)
(* C16: a creation request with a non-empty orderId that has no record,    *)
(* when neither the store nor the event bus faults, inserts the one record *)
(* {orderId, NEW, item} (item "unknown" when the request has none),        *)
(* publishes once, with detail {orderId, item}, and returns 200 with       *)
(* {orderId, status NEW}.  With a fault it returns 500 and inserts         *)
(* nothing, or returns 502 and publishes nothing.                          *)
(***************************************************************************)
C16_HappyPath ==
    /\ [][\A c \in Creators :
            LET body == creators'[c].body
                o == body.orderId
                item == IF body.item = Absent THEN "unknown" ELSE body.item
            IN  (Started(c) /\ body.kind = "object" /\ Truthy(o) /\ store[o] = NoItem)
                => \/ /\ creators'[c].pc = "put_events"
                      /\ creators'[c].inserted
                      /\ store' = [store EXCEPT ![o] =
                                     [orderId |-> o, status |-> "NEW", item |-> item]]
                      /\ bus' = bus
                   \/ /\ creators'[c].result = Response(500)
                      /\ creators'[c].pc = "returned"
                      /\ store' = store
                      /\ bus' = bus]_vars
    /\ [][\A c \in Creators :
            LET body == creators[c].body
                o == body.orderId
                item == IF body.item = Absent THEN "unknown" ELSE body.item
            IN  (creators[c].pc = "put_events" /\ creators'[c].pc # "put_events")
                => /\ creators'[c].pc = "returned"
                   /\ store' = store
                   /\ store[o] = [orderId |-> o, status |-> "NEW", item |-> item]
                   /\ bus[c] = NoDelivery
                   /\ \/ /\ creators'[c].result = Response(200)
                         /\ creators'[c].response_body = [orderId |-> o, status |-> "NEW"]
                         /\ bus' = [bus EXCEPT ![c] =
                               [detail |-> [present |-> TRUE, orderId |-> o, item |-> item],
                                origin |-> "creator", attempts |-> 0,
                                state |-> "queued", result |-> NoResult]]
                      \/ /\ creators'[c].result = Response(502)
                         /\ bus' = bus]_vars
    /\ [](\A c \in Creators :
            creators[c].result = Response(200)
            => /\ creators[c].inserted /\ creators[c].published
               /\ creators[c].response_body.orderId = creators[c].body.orderId
               /\ bus[c].origin = "creator")

\* A request without item returned 200: the record and the published detail
\* both carry "unknown", and the event is still waiting for the processor.
C16_Witness ==
    \E c \in Creators :
        /\ creators[c].body = Body("object", "o1", Absent)
        /\ creators[c].result = Response(200)
        /\ creators[c].response_body = [orderId |-> "o1", status |-> "NEW"]
        /\ store["o1"] = [orderId |-> "o1", status |-> "NEW", item |-> "unknown"]
        /\ bus[c].detail = [present |-> TRUE, orderId |-> "o1", item |-> "unknown"]
        /\ bus[c].state = "queued" /\ bus[c].attempts = 0

\* Creator invocation c inserted its order and then failed to publish it.
Stranded(c) == creators[c].inserted /\ creators[c].result = Response(502)

(***************************************************************************)
(* C17, as stated: once the creation of an order ended in 502, every      *)
(* creation request for that orderId that started later and has finished   *)
(* returned 409.                                                           *)
(***************************************************************************)
C17_AsStated ==
    \A c, b \in Creators :
        (Stranded(c) /\ b > c /\ Finished(b) /\ creators[b].order_id = creators[c].order_id)
        => creators[b].result = Response(409)

(***************************************************************************)
(* C17: after a creation that inserted the record and failed to publish    *)
(* (502), the order is NEW and stays NEW: no event for it is on the bus,   *)
(* nothing updates it, and every other creation request for the orderId    *)
(* inserts nothing, publishes nothing and returns 409, or 500 when the     *)
(* store faults.                                                           *)
(***************************************************************************)
C17_StrandedStaysNew ==
    \A c \in Creators :
        Stranded(c) =>
            LET o == creators[c].order_id
            IN  /\ store[o].orderId = o
                /\ store[o].status = "NEW"
                /\ updates[o] = 0
                /\ \A d \in Deliveries : bus[d].state # "none" => OrderIdOf(d) # o
                /\ \A b \in Creators :
                      (b # c /\ creators[b].order_id = o)
                      => /\ ~creators[b].inserted
                         /\ ~creators[b].published
                         /\ creators[b].pc = "returned"
                         /\ creators[b].result \in {Response(409), Response(500)}

\* The creation of o1 ended in 502 and the client's retry in 409.
C17_Witness ==
    \E c, b \in Creators :
        /\ Stranded(c)
        /\ creators[c].order_id = "o1"
        /\ b # c
        /\ creators[b].order_id = "o1"
        /\ creators[b].result = Response(409)
        /\ store["o1"].status = "NEW"

\* The order of creator invocation c is PROCESSED in the store.
Processed(c) ==
    /\ creators[c].order_id \in OrderIds
    /\ store[creators[c].order_id].status = "PROCESSED"

FromCreator(d) == bus[d].origin \in {"creator", "duplicate"}

(***************************************************************************)
(* C19: every event the creation handler published, whether waiting, being *)
(* retried, dead-lettered or done, names an orderId that has a record in   *)
(* the store, because the insert comes before the publish; so no           *)
(* invocation of the processing handler for such an event ends on the      *)
(* update's failed condition.                                              *)
(***************************************************************************)
C19_PublishedEventHasRecord ==
    \A d \in Deliveries :
        FromCreator(d) =>
            /\ Truthy(OrderIdOf(d))
            /\ store[OrderIdOf(d)] # NoItem
            /\ store[OrderIdOf(d)].orderId = OrderIdOf(d)
            /\ bus[d].result # Raised("ConditionalCheckFailedException")

\* A published event was dead-lettered after three store faults, a repeat
\* of it is still waiting, and the order's record is there.
C19_Witness ==
    \E d, e \in Deliveries :
        /\ bus[d].origin = "creator"
        /\ bus[d].state = "dlq"
        /\ bus[e].origin = "duplicate"
        /\ bus[e].state = "queued"
        /\ OrderIdOf(e) = OrderIdOf(d)
        /\ store[OrderIdOf(d)] # NoItem

(***************************************************************************)
(* C20: a processing invocation that succeeds changes nothing but the      *)
(* status of the record of the event's orderId: the record keeps its       *)
(* orderId and its item, and the other records stay as they are.           *)
(***************************************************************************)
C20_OnlyStatusChanges ==
    [][\A d \in Deliveries :
          (Invoked(d) /\ bus'[d].result = Response(200))
          => LET o == OrderIdOf(d)
             IN  /\ store[o] # NoItem
                 /\ store'[o].orderId = store[o].orderId
                 /\ store'[o].item = store[o].item
                 /\ store'[o].status = "PROCESSED"
                 /\ \A p \in OrderIds \ {o} : store'[p] = store[p]]_vars

\* o1 was processed and kept the item it was created with, while o2, also
\* created, is as it was.
C20_Witness ==
    /\ store["o1"] = [orderId |-> "o1", status |-> "PROCESSED", item |-> "chips"]
    /\ store["o2"] = [orderId |-> "o2", status |-> "NEW", item |-> "chips"]
    /\ \E d \in Deliveries :
          /\ OrderIdOf(d) = "o1"
          /\ bus[d].state = "done"
          /\ bus[d].result = Response(200)
====
